---- MODULE Spec2Model ----
(***************************************************************************)
(* A model of the two cores of pve-k3s-management:                         *)
(*   - the status poller  monitor_pve_task  of src/mcp/main_mcp.py, with   *)
(*     the PveApiClient it calls;                                          *)
(*   - the event pipeline of src/monitoring/agent/agent.py: the registry   *)
(*     MONITOR_QUEUES, broadcast_event, sse_generator, monitor_endpoint    *)
(*     and monitor_generator (and the sse_generator of pve_agent.py, the   *)
(*     same translator without the bus).                                   *)
(* main_mcp.py as given does not parse (line 208 lacks its closing          *)
(* parenthesis); the model takes its function bodies as written.           *)
(* Wall-clock time is an integer clock that advances only while the poller *)
(* sleeps or waits for a status fetch; timestamps of events are left out   *)
(* (no claim reads them).                                                  *)
(***************************************************************************)
EXTENDS Integers, Sequences, FiniteSets, TLC

\* ------------------------------------------------------------------------
\* Bounds of the model
\* ------------------------------------------------------------------------
MaxTimeout == 6
MaxSleepJitter == 1
MaxFetchDelay == 2
\* concurrent /chat invocations, and upstream steps pulled per run, in BusSpec
MaxThreads == 2
MaxBusSteps == 1
\* /monitor connections over a run, and frames one observer pulls
MaxQueues == 2
MaxReads == 1
\* upstream steps pulled by the one invocation of TranslatorSpec
MaxSteps == 4
\* calls of the other tools and of api_request in ClientSpec
MaxToolCalls == 2

\* time.sleep(2), main_mcp.py line 283
SLEEP_SECS == 2

\* agent.py line 253: asyncio.Queue() takes the default maxsize, 0 (unbounded).
QUEUE_MAXSIZE == 0

VARIABLES
    \* ---- main_mcp.py -------------------------------------------------
    pve_client,        \* "None" | "client"        (global, line 220)
    is_authenticated,  \* PveApiClient.is_authenticated
    token_id,          \* PveApiClient.token_id is set and non-empty
    token_secret,      \* PveApiClient.token_secret is set and non-empty
    httpRequests,      \* history: requests.request calls made (line 78)
    toolCalls,         \* history: calls of the other tools and of api_request
    toolOutcome,       \* what the last of those calls returned, by its form
    ppc,               \* position of the one monitor_pve_task call
    timeout,           \* its timeout argument
    now,               \* time.time()
    start_time,        \* local start_time
    response,          \* local response (last api_request result)
    status,            \* local status; "unbound" before its first assignment
    exitstatus,        \* local exitstatus
    outcome,           \* the returned string, by its form
    fetches,           \* history: GETs issued on the task's status path
    sleeps,            \* history: time.sleep calls made
    respLog,           \* history: the results of the fetches, in order
    extraDelay,        \* history: time spent beyond the plain 2 s sleeps
    \* ---- agent.py / pve_agent.py -----------------------------------
    module,            \* which file runs: "agent" | "pve_agent" (no bus)
    MONITOR_QUEUES,    \* the registry, a list of queues (agent.py line 27)
    nextQ,             \* the next asyncio.Queue() to be created
    qput,              \* per queue: every item ever put, in order
    qgot,              \* per queue: how many of them q.get() has returned
    mpc,               \* per queue: position of its monitor_generator
    published,         \* history: the broadcast_event calls, in order
    regAt,             \* history: Len(published) when the queue registered
    unregAt,           \* history: Len(published) when the queue was removed
    spc,               \* per invocation: position of its sse_generator
    thread_id,         \* per invocation: ChatRequest.thread_id
    pending,           \* per invocation: events of the current step not yet
                       \* broadcast; the head is the one at its yield
    stream,            \* per invocation: the frames yielded to the caller
    pulled             \* per invocation: the upstream steps pulled so far

pollerVars == <<pve_client, is_authenticated, token_id, token_secret,
                httpRequests, toolCalls, toolOutcome, ppc, timeout, now, start_time,
                response, status, exitstatus, outcome, fetches, sleeps,
                respLog, extraDelay>>

busVars == <<module, MONITOR_QUEUES, nextQ, qput, qgot, mpc, published, regAt,
             unregAt,
             spc, thread_id, pending, stream, pulled>>

vars == <<pollerVars, busVars>>

\* ------------------------------------------------------------------------
\* main_mcp.py: values
\* ------------------------------------------------------------------------
NoOutcome == [kind |-> "none", detail |-> ""]

Outcome(k, d) == [kind |-> k, detail |-> d]

NoResponse == [kind |-> "unset", data |-> "", status |-> "", exit |-> ""]

\* What api_request can hand back on the status path: None (a JSON null
\* body), a dict with 'error', a JSON value that is no dict, a dict without
\* 'data', a dict whose 'data' is null, and a dict whose 'data' is a dict
\* with the fields status / exitstatus present, null ("None") or missing
\* (status "None", exitstatus "N/A": the .get defaults).
RNone == [kind |-> "none", data |-> "", status |-> "", exit |-> ""]

RError == [kind |-> "error", data |-> "", status |-> "", exit |-> ""]

RList == [kind |-> "list", data |-> "", status |-> "", exit |-> ""]

RNoData == [kind |-> "dict", data |-> "missing", status |-> "None", exit |-> "N/A"]

RNullData == [kind |-> "dict", data |-> "null", status |-> "", exit |-> ""]

RData(s, e) == [kind |-> "dict", data |-> "dict", status |-> s, exit |-> e]

StatusValues == {"None", "running", "stopped"}

ExitValues == {"N/A", "None", "OK", "ERR"}

HttpResponses ==
    {RNone, RError, RList, RNoData, RNullData}
        \cup {RData(s, e) : s \in StatusValues, e \in ExitValues}

Timeouts == (-1) .. MaxTimeout

\* ------------------------------------------------------------------------
\* main_mcp.py: PveApiClient
\* ------------------------------------------------------------------------
\* authenticate(): true exactly when token id and secret are both set.
authenticate(id, secret) == id /\ secret

\* api_request: without authentication the error dict, and no HTTP request;
\* otherwise whatever the HTTP exchange yields (an error dict on an HTTP or
\* transport error, else the decoded JSON body).
api_request(authed) == IF ~authed THEN {RError} ELSE HttpResponses

\* an api_request that sends its request whatever the flag says
HttpIssuedAlways(authed) == 1

\* lines 60-78: the number of requests.request calls one api_request call
\* makes: none when line 61 returns, one otherwise.
HttpIssued(authed) == IF ~authed THEN 0 ELSE 1

\* ------------------------------------------------------------------------
\* main_mcp.py: monitor_pve_task, lines 276-303
\* ------------------------------------------------------------------------
\* line 282: while time.time() - start_time < timeout
LoopConditionLe(t, s, T) == t - s <= T

LoopCondition(t, s, T) == t - s < T

\* a deadline check that already counts the next 2 s sleep
DeadlinePassedEarly(t, s, T) == t - s + SLEEP_SECS > T

\* line 300: if time.time() - start_time > timeout
DeadlinePassed(t, s, T) == t - s > T

\* line 287: response is None or (isinstance(response, dict) and 'error' in response)
FetchFailed(r) == r.kind \in {"none", "error"}

\* lines 290-292 raise AttributeError when response or response['data'] has
\* no .get: a non-dict JSON body, or 'data': null.
GetRaises(r) == r.kind = "list" \/ (r.kind = "dict" /\ r.data = "null")

\* lines 287-298 for one fetched response: where the call goes next
\* ("done": it returned, "raised": an exception left it, "recheck": line
\* 300), what it returned, and the locals status / exitstatus.
InspectRetry(r, st, ex) ==
    IF FetchFailed(r) THEN
        [pc |-> "recheck", out |-> NoOutcome, status |-> st, exit |-> ex]
    ELSE IF GetRaises(r) THEN
        [pc |-> "raised", out |-> NoOutcome, status |-> st, exit |-> ex]
    ELSE IF r.status = "stopped" THEN
        IF r.exit = "OK"
        THEN [pc |-> "done", out |-> Outcome("SUCCESS", r.exit),
              status |-> r.status, exit |-> r.exit]
        ELSE [pc |-> "done", out |-> Outcome("FAILURE", r.exit),
              status |-> r.status, exit |-> r.exit]
    ELSE [pc |-> "recheck", out |-> NoOutcome, status |-> r.status, exit |-> r.exit]

InspectAnyStopOk(r, st, ex) ==
    IF FetchFailed(r) THEN
        [pc |-> "done", out |-> Outcome("ERROR_FETCH", r.kind),
         status |-> st, exit |-> ex]
    ELSE IF GetRaises(r) THEN
        [pc |-> "raised", out |-> NoOutcome, status |-> st, exit |-> ex]
    ELSE IF r.status = "stopped" THEN
        [pc |-> "done", out |-> Outcome("SUCCESS", r.exit),
         status |-> r.status, exit |-> r.exit]
    ELSE [pc |-> "recheck", out |-> NoOutcome, status |-> r.status, exit |-> r.exit]

InspectNoReturn(r, st, ex) ==
    IF FetchFailed(r) THEN
        [pc |-> "done", out |-> Outcome("ERROR_FETCH", r.kind),
         status |-> st, exit |-> ex]
    ELSE IF GetRaises(r) THEN
        [pc |-> "raised", out |-> NoOutcome, status |-> st, exit |-> ex]
    ELSE IF r.status = "stopped" THEN
        IF r.exit = "OK"
        THEN [pc |-> "recheck", out |-> Outcome("SUCCESS", r.exit),
              status |-> r.status, exit |-> r.exit]
        ELSE [pc |-> "recheck", out |-> Outcome("FAILURE", r.exit),
              status |-> r.status, exit |-> r.exit]
    ELSE [pc |-> "recheck", out |-> NoOutcome, status |-> r.status, exit |-> r.exit]

Inspect(r, st, ex) ==
    IF FetchFailed(r) THEN
        [pc |-> "done", out |-> Outcome("ERROR_FETCH", r.kind),
         status |-> st, exit |-> ex]
    ELSE IF GetRaises(r) THEN
        [pc |-> "raised", out |-> NoOutcome, status |-> st, exit |-> ex]
    ELSE IF r.status = "stopped" THEN
        IF r.exit = "OK"
        THEN [pc |-> "done", out |-> Outcome("SUCCESS", r.exit),
              status |-> r.status, exit |-> r.exit]
        ELSE [pc |-> "done", out |-> Outcome("FAILURE", r.exit),
              status |-> r.status, exit |-> r.exit]
    ELSE [pc |-> "recheck", out |-> NoOutcome, status |-> r.status, exit |-> r.exit]

\* initialize_pve_agent, lines 613-633: builds the client and authenticates.
initialize_pve_agent ==
    /\ pve_client = "None"
    /\ ppc = "idle"
    /\ \E id \in BOOLEAN, secret \in BOOLEAN :
          /\ token_id' = id
          /\ token_secret' = secret
          /\ is_authenticated' = authenticate(id, secret)
    /\ pve_client' = "client"
    /\ UNCHANGED <<httpRequests, toolCalls, toolOutcome, ppc, timeout, now,
                   start_time, response, status, exitstatus, outcome,
                   fetches, sleeps, respLog, extraDelay>>
    /\ UNCHANGED busVars

\* a guard that lets a client through as soon as it exists
NotReadyUnsetOnly(client, authed) == client = "None"

\* line 276: not pve_client or not pve_client.is_authenticated
NotReady(client, authed) == client = "None" \/ ~authed

\* lines 265-280: the call, its guard and start_time.
MonitorCall ==
    /\ ppc = "idle"
    /\ \E T \in Timeouts :
          IF NotReady(pve_client, is_authenticated)
          THEN /\ outcome' = Outcome("ERROR_NOT_AUTH", "")
               /\ ppc' = "done"
               /\ timeout' = T
               /\ UNCHANGED start_time
          ELSE /\ timeout' = T
               /\ start_time' = now
               /\ ppc' = "loop"
               /\ UNCHANGED outcome
    /\ UNCHANGED <<pve_client, is_authenticated, token_id, token_secret,
                   httpRequests, toolCalls, toolOutcome, now, response, status,
                   exitstatus, fetches, sleeps, respLog, extraDelay>>
    /\ UNCHANGED busVars

\* a return after the loop that leaves the status out of its text
LoopExitNoStatus(st) ==
    IF st = "unbound"
    THEN [pc |-> "raised", out |-> NoOutcome]
    ELSE [pc |-> "done", out |-> Outcome("ERROR_TIMEOUT", "")]

\* line 303, the return after the loop: it reads status, which is unbound
\* (UnboundLocalError) when the body never ran.
LoopExit(st) ==
    IF st = "unbound"
    THEN [pc |-> "raised", out |-> NoOutcome]
    ELSE [pc |-> "done", out |-> Outcome("ERROR_TIMEOUT", st)]

\* line 282 at time t: into the body, or out of the loop to line 303.
WhileTest(t, s, T, st) ==
    IF LoopCondition(t, s, T)
    THEN [pc |-> "sleep", out |-> NoOutcome]
    ELSE LoopExit(st)

\* lines 300-301 at time t: the return inside the loop, or on to line 282.
DeadlineCheck(t, s, T, st) ==
    IF DeadlinePassed(t, s, T)
    THEN [pc |-> "done", out |-> Outcome("ERROR_TIMEOUT", st)]
    ELSE [pc |-> "loop", out |-> NoOutcome]

\* line 282, and line 303 when the loop is left.
LoopTest ==
    /\ ppc = "loop"
    /\ LET res == WhileTest(now, start_time, timeout, status) IN
          /\ ppc' = res.pc
          /\ outcome' = res.out
    /\ UNCHANGED <<pve_client, is_authenticated, token_id, token_secret,
                   httpRequests, toolCalls, toolOutcome, timeout, now, start_time,
                   response, status, exitstatus, fetches, sleeps, respLog,
                   extraDelay>>
    /\ UNCHANGED busVars

\* line 283: time.sleep(2) suspends for at least 2 seconds.
Sleep ==
    /\ ppc = "sleep"
    /\ \E j \in 0 .. MaxSleepJitter :
          /\ now' = now + SLEEP_SECS + j
          /\ extraDelay' = extraDelay + j
    /\ sleeps' = sleeps + 1
    /\ ppc' = "fetch"
    /\ UNCHANGED <<pve_client, is_authenticated, token_id, token_secret,
                   httpRequests, toolCalls, toolOutcome, timeout, start_time, response,
                   status, exitstatus, outcome, fetches, respLog>>
    /\ UNCHANGED busVars

\* line 285: the status fetch, which takes d seconds.
Fetch ==
    /\ ppc = "fetch"
    /\ \E r \in api_request(is_authenticated), d \in 0 .. MaxFetchDelay :
          /\ response' = r
          /\ respLog' = Append(respLog, r)
          /\ now' = now + d
          /\ extraDelay' = extraDelay + d
    /\ fetches' = fetches + 1
    /\ httpRequests' = httpRequests + HttpIssued(is_authenticated)
    /\ ppc' = "inspect"
    /\ UNCHANGED <<pve_client, is_authenticated, token_id, token_secret,
                   toolCalls, toolOutcome, timeout, start_time, status,
                   exitstatus, outcome, sleeps>>
    /\ UNCHANGED busVars

\* lines 287-298.
InspectResponse ==
    /\ ppc = "inspect"
    /\ LET res == Inspect(response, status, exitstatus) IN
          /\ ppc' = res.pc
          /\ outcome' = res.out
          /\ status' = res.status
          /\ exitstatus' = res.exit
    /\ UNCHANGED <<pve_client, is_authenticated, token_id, token_secret,
                   httpRequests, toolCalls, toolOutcome, timeout, now, start_time,
                   response, fetches, sleeps, respLog, extraDelay>>
    /\ UNCHANGED busVars

\* lines 300-301.
Recheck ==
    /\ ppc = "recheck"
    /\ LET res == DeadlineCheck(now, start_time, timeout, status) IN
          /\ ppc' = res.pc
          /\ outcome' = res.out
    /\ UNCHANGED <<pve_client, is_authenticated, token_id, token_secret,
                   httpRequests, toolCalls, toolOutcome, timeout, now, start_time,
                   response, status, exitstatus, fetches, sleeps, respLog,
                   extraDelay>>
    /\ UNCHANGED busVars

\* Any other tool (get_vm_status, list_nodes, list_vms_on_node,
\* create_new_vm, start_vm, shutdown_vm, reboot_vm, clone_vm, delete_vm,
\* update_vm_config; lines 306-610): the guard of its first statement, then
\* one client method, which is one api_request call, then the formatting
\* of what came back.
ToolCall ==
    /\ toolCalls < MaxToolCalls
    /\ toolCalls' = toolCalls + 1
    /\ IF NotReady(pve_client, is_authenticated)
       THEN /\ toolOutcome' = "ERROR_NOT_AUTH"
            /\ UNCHANGED httpRequests
       ELSE /\ \E r \in api_request(is_authenticated) :
                  toolOutcome' = IF FetchFailed(r) THEN "API_ERROR" ELSE "RESULT"
            /\ httpRequests' = httpRequests + HttpIssued(is_authenticated)
    /\ UNCHANGED <<pve_client, is_authenticated, token_id, token_secret, ppc,
                   timeout, now, start_time, response, status, exitstatus,
                   outcome, fetches, sleeps, respLog, extraDelay>>
    /\ UNCHANGED busVars

\* api_request (lines 51-95) called on the client object itself, as the
\* client methods of lines 101-200 do, without a tool's guard before it.
ApiRequestCall ==
    /\ pve_client = "client"
    /\ toolCalls < MaxToolCalls
    /\ toolCalls' = toolCalls + 1
    /\ \E r \in api_request(is_authenticated) :
          toolOutcome' = IF r.kind = "error" THEN "error_dict" ELSE "response"
    /\ httpRequests' = httpRequests + HttpIssued(is_authenticated)
    /\ UNCHANGED <<pve_client, is_authenticated, token_id, token_secret, ppc,
                   timeout, now, start_time, response, status, exitstatus,
                   outcome, fetches, sleeps, respLog, extraDelay>>
    /\ UNCHANGED busVars

\* ------------------------------------------------------------------------
\* agent.py / pve_agent.py: values
\* ------------------------------------------------------------------------
Invs == 1 .. MaxThreads

QIds == 1 .. MaxQueues

Modules == {"agent", "pve_agent"}

\* Texts that start with "Returning structured response" (line 84).
MARKER == "Returning structured response: {}"

\* a filter that compares the whole text with the marker's fixed words
EqualsMarkerWords(c) == c = "Returning structured response"

\* message.content.startswith("Returning structured response") (line 84),
\* over the texts of the model
StartsWithMarker(c) == c \in {"Returning structured response", MARKER}

\* Messages of an update: an AIMessage, a ToolMessage or any other message
\* (a HumanMessage), with its content.
AI(c) == [cls |-> "AIMessage", content |-> c]

ToolMsg(c) == [cls |-> "ToolMessage", content |-> c]

Human(c) == [cls |-> "HumanMessage", content |-> c]

\* One update of a step: its "messages" and "tool_calls" lists (empty when
\* the key is absent) and whether it has "structured_response".
Update(msgs, calls, sr) ==
    [messages |-> msgs, tool_calls |-> calls, structured_response |-> sr]

\* A step is the list of its updates, in step.values() order.
StepReasoning == <<Update(<<AI("x")>>, <<>>, FALSE)>>

StepEmptyReasoning == <<Update(<<AI("")>>, <<>>, FALSE)>>

StepMarker == <<Update(<<AI(MARKER)>>, <<>>, FALSE)>>

\* the marker's words inside a text that does not start with them
StepMarkerInside ==
    <<Update(<<AI("ok. Returning structured response")>>, <<>>, FALSE)>>

StepHuman == <<Update(<<Human("hi")>>, <<>>, FALSE)>>

StepToolCall == <<Update(<<>>, <<"start_vm">>, FALSE)>>

StepToolResult == <<Update(<<ToolMsg("ok")>>, <<>>, FALSE)>>

StepAnswer == <<Update(<<>>, <<>>, TRUE)>>

\* everything in one update, and two updates in one step
StepMixed == <<Update(<<ToolMsg("ok"), AI("x")>>, <<"start_vm">>, TRUE)>>

StepTwoUpdates == <<Update(<<>>, <<>>, TRUE), Update(<<AI("x")>>, <<>>, FALSE)>>

AllSteps == {StepReasoning, StepEmptyReasoning, StepMarker, StepMarkerInside,
             StepHuman,
             StepToolCall, StepToolResult, StepAnswer, StepMixed,
             StepTwoUpdates}

BusSteps == {StepReasoning}

\* An event before it is framed or broadcast: its type and content.
Ev(t, c) == [type |-> t, content |-> c]

\* The dict handed to broadcast_event (its timestamp left out).
BusEvent(tid, e) == [thread_id |-> tid, type |-> e.type, content |-> e.content]

\* ------------------------------------------------------------------------
\* agent.py: sse_generator, the translation of one step (lines 76-146)
\* ------------------------------------------------------------------------
\* lines 80-117: the events of a "messages" list, in order.
RECURSIVE MessageEventsAnyContent(_)
MessageEventsAnyContent(msgs) ==
    IF msgs = <<>> THEN <<>>
    ELSE LET m == Head(msgs)
             e == IF m.content # ""
                  THEN IF StartsWithMarker(m.content)
                       THEN <<>>
                       ELSE <<Ev("thought", m.content)>>
                  ELSE IF m.cls = "ToolMessage"
                       THEN <<Ev("tool_result", m.content)>>
                       ELSE <<>>
         IN e \o MessageEventsAnyContent(Tail(msgs))

RECURSIVE MessageEvents(_)
MessageEvents(msgs) ==
    IF msgs = <<>> THEN <<>>
    ELSE LET m == Head(msgs)
             e == IF m.cls = "AIMessage" /\ m.content # ""
                  THEN IF StartsWithMarker(m.content)
                       THEN <<>>
                       ELSE <<Ev("thought", m.content)>>
                  ELSE IF m.cls = "ToolMessage"
                       THEN <<Ev("tool_result", m.content)>>
                       ELSE <<>>
         IN e \o MessageEvents(Tail(msgs))

\* lines 120-132: one tool_call event per call.
RECURSIVE CallEvents(_)
CallEvents(calls) ==
    IF calls = <<>> THEN <<>>
    ELSE <<Ev("tool_call", Head(calls))>> \o CallEvents(Tail(calls))

\* lines 79-146 for one update: messages, then tool calls, then the answer.
UpdateEvents(u) ==
    MessageEvents(u.messages)
        \o CallEvents(u.tool_calls)
        \o (IF u.structured_response THEN <<Ev("answer", "done")>> ELSE <<>>)

\* line 76: for update in step.values()
RECURSIVE StepEvents(_)
StepEvents(step) ==
    IF step = <<>> THEN <<>>
    ELSE UpdateEvents(Head(step)) \o StepEvents(Tail(step))

\* The text yielded for an event: its "event:" label (none for thought,
\* tool_call and tool_result) and the type and content of its JSON data;
\* start and done carry fixed text and no JSON (lines 69, 89, 107, 123,
\* 138, 150, 161).
Frame(e) ==
    CASE e.type = "start" -> [label |-> "start", type |-> "", content |-> "..."]
      [] e.type = "done" -> [label |-> "done", type |-> "", content |-> "[DONE]"]
      [] e.type = "answer" -> [label |-> "result", type |-> "answer", content |-> e.content]
      [] e.type = "error" -> [label |-> "error", type |-> "error", content |-> e.content]
      [] OTHER -> [label |-> "", type |-> e.type, content |-> e.content]

\* ------------------------------------------------------------------------
\* agent.py: the bus (lines 27-32)
\* ------------------------------------------------------------------------
\* broadcast_event's loop: put the event on every queue of the registry, in
\* list order. asyncio.Queue() is unbounded, so "await q.put" never suspends
\* and the whole loop runs without another task in between.
RECURSIVE PutAll(_, _, _)
PutAll(qs, registry, ev) ==
    IF registry = <<>> THEN qs
    ELSE PutAll([qs EXCEPT ![Head(registry)] = Append(@, ev)], Tail(registry), ev)

PutFirstOnly(qs, registry, ev) ==
    IF registry = <<>> THEN qs
    ELSE [qs EXCEPT ![Head(registry)] = Append(@, ev)]

Fanout(qs, registry, ev) == PutAll(qs, registry, ev)

\* the items put on q and not yet taken by q.get()
Buffer(q) == SubSeq(qput[q], qgot[q] + 1, Len(qput[q]))

\* a queue that holds at most one item
FullAtOne(q) == Len(Buffer(q)) >= 1

\* asyncio.Queue.full() for the queue made by "asyncio.Queue()" (line 253):
\* never full when maxsize is 0.
Full(q) == QUEUE_MAXSIZE > 0 /\ Len(Buffer(q)) >= QUEUE_MAXSIZE

\* "await q.put" returns without suspending unless the queue is full.
CanPut == \A k \in 1 .. Len(MONITOR_QUEUES) : ~Full(MONITOR_QUEUES[k])

\* broadcast_event(ev) by the running module: pve_agent.py has no bus.
broadcast_event(ev) ==
    IF module = "agent"
    THEN /\ CanPut
         /\ qput' = Fanout(qput, MONITOR_QUEUES, ev)
         /\ published' = Append(published, ev)
    ELSE UNCHANGED <<qput, published>>

\* ------------------------------------------------------------------------
\* agent.py / pve_agent.py: chat_endpoint and sse_generator
\* ------------------------------------------------------------------------
Yield(i, e) == stream' = [stream EXCEPT ![i] = Append(@, Frame(e))]

\* chat_endpoint (lines 227-238): the i-th request makes its generator; the
\* invocations are numbered in the order of their requests, and each request
\* carries a thread_id of its own.
chat_endpoint(i) ==
    /\ spc[i] = "new"
    /\ \A j \in 1 .. (i - 1) : spc[j] # "new"
    /\ thread_id' = [thread_id EXCEPT ![i] = i]
    /\ spc' = [spc EXCEPT ![i] = "created"]
    /\ UNCHANGED <<module, MONITOR_QUEUES, nextQ, qput, qgot, mpc, published,
                   regAt, unregAt, pending, stream, pulled>>
    /\ UNCHANGED pollerVars

\* lines 58-69: the first run of the body: broadcast start, then yield it.
SseStart(i) ==
    /\ spc[i] = "created"
    /\ broadcast_event(BusEvent(thread_id[i], Ev("start", "New Request")))
    /\ Yield(i, Ev("start", ""))
    /\ spc' = [spc EXCEPT ![i] = "at_start"]
    /\ UNCHANGED <<module, MONITOR_QUEUES, nextQ, qgot, mpc, regAt, unregAt, thread_id,
                   pending, pulled>>
    /\ UNCHANGED pollerVars

\* The caller asks for the next frame after start: the generator enters the
\* try and waits for the first step of agent.astream (line 72).
ResumeStart(i) ==
    /\ spc[i] = "at_start"
    /\ spc' = [spc EXCEPT ![i] = "awaiting"]
    /\ UNCHANGED <<module, MONITOR_QUEUES, nextQ, qput, qgot, mpc, published,
                   regAt, unregAt, thread_id, pending, stream, pulled>>
    /\ UNCHANGED pollerVars

\* agent.astream hands over a step (lines 72-146): its events are worked
\* off in order; the generator suspends at the yield of the first one, or
\* goes on to wait for the next step when the step has none.
UpstreamStep(i, steps, maxPulls) ==
    /\ spc[i] = "awaiting"
    /\ Len(pulled[i]) < maxPulls
    /\ \E s \in steps :
          LET evs == StepEvents(s) IN
             /\ pulled' = [pulled EXCEPT ![i] = Append(@, s)]
             /\ IF evs = <<>>
                THEN UNCHANGED <<spc, pending, stream>>
                ELSE /\ Yield(i, Head(evs))
                     /\ pending' = [pending EXCEPT ![i] = evs]
                     /\ spc' = [spc EXCEPT ![i] = "at_event"]
    /\ UNCHANGED <<module, MONITOR_QUEUES, nextQ, qput, qgot, mpc, published,
                   regAt, unregAt, thread_id>>
    /\ UNCHANGED pollerVars

\* The caller asks for the next frame after a thought, tool_result,
\* tool_call or answer: the generator broadcasts the event it had yielded
\* (lines 92, 110, 126, 141), then yields the next event of the step or
\* waits for the next step.
ResumeEvent(i) ==
    /\ spc[i] = "at_event"
    /\ broadcast_event(BusEvent(thread_id[i], Head(pending[i])))
    /\ LET rest == Tail(pending[i]) IN
          /\ pending' = [pending EXCEPT ![i] = rest]
          /\ IF rest = <<>>
             THEN /\ spc' = [spc EXCEPT ![i] = "awaiting"]
                  /\ UNCHANGED stream
             ELSE /\ Yield(i, Head(rest))
                  /\ UNCHANGED spc
    /\ UNCHANGED <<module, MONITOR_QUEUES, nextQ, qgot, mpc, regAt, unregAt, thread_id,
                   pulled>>
    /\ UNCHANGED pollerVars

\* agent.astream is exhausted: the loop ends and done is yielded (line 161).
UpstreamFinish(i) ==
    /\ spc[i] = "awaiting"
    /\ Yield(i, Ev("done", ""))
    /\ spc' = [spc EXCEPT ![i] = "at_done"]
    /\ UNCHANGED <<module, MONITOR_QUEUES, nextQ, qput, qgot, mpc, published,
                   regAt, unregAt, thread_id, pending, pulled>>
    /\ UNCHANGED pollerVars

\* agent.astream raises an Exception: the except clause yields the error
\* frame (lines 148-150).
UpstreamRaise(i) ==
    /\ spc[i] = "awaiting"
    /\ Yield(i, Ev("error", "boom"))
    /\ spc' = [spc EXCEPT ![i] = "at_error"]
    /\ UNCHANGED <<module, MONITOR_QUEUES, nextQ, qput, qgot, mpc, published,
                   regAt, unregAt, thread_id, pending, pulled>>
    /\ UNCHANGED pollerVars

ResumeErrorNoDone(i) ==
    /\ spc[i] = "at_error"
    /\ broadcast_event(BusEvent(thread_id[i], Ev("error", "boom")))
    /\ spc' = [spc EXCEPT ![i] = "closed"]
    /\ UNCHANGED <<module, MONITOR_QUEUES, nextQ, qgot, mpc, regAt, unregAt, thread_id,
                   pending, stream, pulled>>
    /\ UNCHANGED pollerVars

\* The caller asks for the next frame after error: the error is broadcast
\* (line 153) and done is yielded (line 161).
ResumeError(i) ==
    /\ spc[i] = "at_error"
    /\ broadcast_event(BusEvent(thread_id[i], Ev("error", "boom")))
    /\ Yield(i, Ev("done", ""))
    /\ spc' = [spc EXCEPT ![i] = "at_done"]
    /\ UNCHANGED <<module, MONITOR_QUEUES, nextQ, qgot, mpc, regAt, unregAt, thread_id,
                   pending, pulled>>
    /\ UNCHANGED pollerVars

\* The caller asks for the next frame after done: the generator returns.
ResumeDone(i) ==
    /\ spc[i] = "at_done"
    /\ spc' = [spc EXCEPT ![i] = "closed"]
    /\ UNCHANGED <<module, MONITOR_QUEUES, nextQ, qput, qgot, mpc, published,
                   regAt, unregAt, thread_id, pending, stream, pulled>>
    /\ UNCHANGED pollerVars

\* The caller of /chat disconnects before the stream has ended. The
\* StreamingResponse of line 238 is what drives sse_generator: its task is
\* cancelled, so the generator is never resumed from its yield (GeneratorExit
\* on close) or gets CancelledError inside "async for" (not an Exception, so
\* line 148 does not catch it). The body stops where it is: no further step
\* is pulled and nothing more is broadcast.
CallerDisconnect(i) ==
    /\ spc[i] \in {"created", "at_start", "awaiting", "at_event", "at_error",
                   "at_done"}
    /\ spc' = [spc EXCEPT ![i] = "cancelled"]
    /\ UNCHANGED <<module, MONITOR_QUEUES, nextQ, qput, qgot, mpc, published,
                   regAt, unregAt, thread_id, pending, stream, pulled>>
    /\ UNCHANGED pollerVars

\* ------------------------------------------------------------------------
\* agent.py: monitor_endpoint and monitor_generator (lines 240-255)
\* ------------------------------------------------------------------------
Registered(q) == \E k \in 1 .. Len(MONITOR_QUEUES) : MONITOR_QUEUES[k] = q

\* list.remove(q) raises ValueError when q is not in the list ...
RemoveRaises(list, q) == \A k \in 1 .. Len(list) : list[k] # q

\* a removal that drops the newest entry, whatever was asked for
RemoveLast(list, q) ==
    IF list = <<>> THEN <<>> ELSE SubSeq(list, 1, Len(list) - 1)

\* ... and drops the first occurrence of q otherwise.
RECURSIVE RemoveFirst(_, _)
RemoveFirst(list, q) ==
    IF list = <<>> THEN <<>>
    ELSE IF Head(list) = q THEN Tail(list)
    ELSE <<Head(list)>> \o RemoveFirst(Tail(list), q)

Remove(list, q) == RemoveFirst(list, q)

\* line 246, "MONITOR_QUEUES.remove(q)", for the queue handle q.
RemoveStatement(q) ==
    IF RemoveRaises(MONITOR_QUEUES, q)
    THEN /\ mpc' = [mpc EXCEPT ![q] = "raised"]
         /\ UNCHANGED <<MONITOR_QUEUES, unregAt>>
    ELSE /\ MONITOR_QUEUES' = Remove(MONITOR_QUEUES, q)
         /\ mpc' = [mpc EXCEPT ![q] = "cancelled"]
         /\ unregAt' = [unregAt EXCEPT ![q] = Len(published)]

\* a registration that hands the new queue the newest event already published
monitor_endpointReplay ==
    /\ module = "agent"
    /\ nextQ <= MaxQueues
    /\ MONITOR_QUEUES' = Append(MONITOR_QUEUES, nextQ)
    /\ mpc' = [mpc EXCEPT ![nextQ] = "created"]
    /\ regAt' = [regAt EXCEPT ![nextQ] = Len(published)]
    /\ qput' = [qput EXCEPT ![nextQ] =
                  IF published = <<>> THEN <<>>
                  ELSE <<published[Len(published)]>>]
    /\ nextQ' = nextQ + 1
    /\ UNCHANGED <<module, qgot, published, unregAt, spc, thread_id, pending,
                   stream, pulled>>
    /\ UNCHANGED pollerVars

\* a registration that appends the new queue twice
monitor_endpointTwice ==
    /\ module = "agent"
    /\ nextQ <= MaxQueues
    /\ MONITOR_QUEUES' = Append(Append(MONITOR_QUEUES, nextQ), nextQ)
    /\ mpc' = [mpc EXCEPT ![nextQ] = "created"]
    /\ regAt' = [regAt EXCEPT ![nextQ] = Len(published)]
    /\ nextQ' = nextQ + 1
    /\ UNCHANGED <<module, qput, qgot, published, unregAt, spc, thread_id,
                   pending, stream, pulled>>
    /\ UNCHANGED pollerVars

\* monitor_endpoint (lines 248-255): a new queue, appended to the registry.
monitor_endpoint ==
    /\ module = "agent"
    /\ nextQ <= MaxQueues
    /\ MONITOR_QUEUES' = Append(MONITOR_QUEUES, nextQ)
    /\ mpc' = [mpc EXCEPT ![nextQ] = "created"]
    /\ regAt' = [regAt EXCEPT ![nextQ] = Len(published)]
    /\ nextQ' = nextQ + 1
    /\ UNCHANGED <<module, qput, qgot, published, unregAt, spc, thread_id, pending,
                   stream, pulled>>
    /\ UNCHANGED pollerVars

\* The observer's transport asks for the next frame (lines 242-244): q.get()
\* returns at once when the buffer has an item, which is yielded; on an
\* empty buffer the generator waits inside q.get().
MonitorNext(q) ==
    /\ mpc[q] \in {"created", "yielded"}
    /\ qgot[q] < MaxReads
    /\ IF Buffer(q) # <<>>
       THEN /\ qgot' = [qgot EXCEPT ![q] = @ + 1]
            /\ mpc' = [mpc EXCEPT ![q] = "yielded"]
       ELSE /\ mpc' = [mpc EXCEPT ![q] = "waiting"]
            /\ UNCHANGED qgot
    /\ UNCHANGED <<module, MONITOR_QUEUES, nextQ, qput, published, regAt, unregAt, spc,
                   thread_id, pending, stream, pulled>>
    /\ UNCHANGED pollerVars

\* A put has woken the waiting q.get(): the item is taken and yielded.
MonitorWake(q) ==
    /\ mpc[q] = "waiting"
    /\ Buffer(q) # <<>>
    /\ qgot' = [qgot EXCEPT ![q] = @ + 1]
    /\ mpc' = [mpc EXCEPT ![q] = "yielded"]
    /\ UNCHANGED <<module, MONITOR_QUEUES, nextQ, qput, published, regAt, unregAt, spc,
                   thread_id, pending, stream, pulled>>
    /\ UNCHANGED pollerVars

\* The observer disconnects while the generator waits in q.get(): the task
\* is cancelled there, CancelledError is caught and the queue is removed
\* (lines 245-246).
MonitorCancel(q) ==
    /\ mpc[q] = "waiting"
    /\ RemoveStatement(q)
    /\ UNCHANGED <<module, nextQ, qput, qgot, published, regAt, spc, thread_id,
                   pending, stream, pulled>>
    /\ UNCHANGED pollerVars

\* The removal of line 246 taken by itself, for any queue handle: one that
\* is registered, one already removed, one never registered.
Unsubscribe(q) ==
    /\ module = "agent"
    /\ RemoveStatement(q)
    /\ UNCHANGED <<module, nextQ, qput, qgot, published, regAt, spc, thread_id,
                   pending, stream, pulled>>
    /\ UNCHANGED pollerVars

\* The observer disconnects while the generator is not running: before its
\* first frame was asked for, or while it is suspended at the yield of line
\* 244 (the cancellation then hits the transport's send; the generator is
\* closed with GeneratorExit, which "except asyncio.CancelledError" does
\* not catch). Nothing is removed.
MonitorClose(q) ==
    /\ mpc[q] \in {"created", "yielded"}
    /\ mpc' = [mpc EXCEPT ![q] = "closed"]
    /\ UNCHANGED <<module, MONITOR_QUEUES, nextQ, qput, qgot, published, regAt, unregAt,
                   spc, thread_id, pending, stream, pulled>>
    /\ UNCHANGED pollerVars

BusInit ==
    /\ MONITOR_QUEUES = <<>>
    /\ nextQ = 1
    /\ qput = [q \in QIds |-> <<>>]
    /\ qgot = [q \in QIds |-> 0]
    /\ mpc = [q \in QIds |-> "none"]
    /\ published = <<>>
    /\ regAt = [q \in QIds |-> 0]
    /\ unregAt = [q \in QIds |-> 0]
    /\ spc = [i \in Invs |-> "new"]
    /\ thread_id = [i \in Invs |-> 0]
    /\ pending = [i \in Invs |-> <<>>]
    /\ stream = [i \in Invs |-> <<>>]
    /\ pulled = [i \in Invs |-> <<>>]

\* The translator of invocation i, over the steps and the pull bound given.
SseNext(i, steps, maxPulls) ==
    \/ chat_endpoint(i)
    \/ SseStart(i)
    \/ ResumeStart(i)
    \/ UpstreamStep(i, steps, maxPulls)
    \/ ResumeEvent(i)
    \/ UpstreamFinish(i)
    \/ UpstreamRaise(i)
    \/ ResumeError(i)
    \/ ResumeDone(i)

MonitorNextStep ==
    \/ monitor_endpoint
    \/ \E q \in QIds : MonitorNext(q)
    \/ \E q \in QIds : MonitorWake(q)
    \/ \E q \in QIds : MonitorCancel(q)
    \/ \E q \in QIds : MonitorClose(q)

BusNext ==
    \/ \E i \in Invs : SseNext(i, BusSteps, MaxBusSteps)
    \/ MonitorNextStep

TranslatorNext == SseNext(1, AllSteps, MaxSteps)

\* One invocation whose caller may disconnect, and the observers.
DisconnectNext ==
    \/ SseNext(1, BusSteps, MaxBusSteps)
    \/ CallerDisconnect(1)
    \/ MonitorNextStep

\* The registry under registrations, the removal of line 246 applied to any
\* handle, and the events of one invocation.
UnsubscribeNext ==
    \/ monitor_endpoint
    \/ \E q \in QIds : Unsubscribe(q)
    \/ SseNext(1, BusSteps, MaxBusSteps)

PollerInit ==
    /\ pve_client = "None"
    /\ is_authenticated = FALSE
    /\ token_id = FALSE
    /\ token_secret = FALSE
    /\ httpRequests = 0
    /\ toolCalls = 0
    /\ toolOutcome = "none"
    /\ ppc = "idle"
    /\ timeout = 0
    /\ now = 0
    /\ start_time = 0
    /\ response = NoResponse
    /\ status = "unbound"
    /\ exitstatus = "unbound"
    /\ outcome = NoOutcome
    /\ fetches = 0
    /\ sleeps = 0
    /\ respLog = <<>>
    /\ extraDelay = 0

PollerNext ==
    \/ initialize_pve_agent
    \/ MonitorCall
    \/ LoopTest
    \/ Sleep
    \/ Fetch
    \/ InspectResponse
    \/ Recheck

\* monitor_pve_task together with the other tools and the client's own
\* request method.
ClientNext ==
    \/ PollerNext
    \/ ToolCall
    \/ ApiRequestCall

Init == PollerInit /\ BusInit /\ module = "agent"

Next == PollerNext \/ BusNext

\* monitor_pve_task alone (main_mcp.py runs as its own process).
PollerSpec == Init /\ [][PollerNext]_vars

\* main_mcp.py: every tool and the client.
ClientSpec == Init /\ [][ClientNext]_vars

\* agent.py: concurrent invocations and observers on the bus.
BusSpec == Init /\ [][BusNext]_vars

\* One invocation of sse_generator, of agent.py or of pve_agent.py, over
\* every kind of step.
TranslatorInit == PollerInit /\ BusInit /\ module \in Modules

TranslatorSpec == TranslatorInit /\ [][TranslatorNext]_vars

\* agent.py with a caller that goes away mid-stream.
DisconnectSpec == Init /\ [][DisconnectNext]_vars

\* agent.py's registry operations by themselves.
UnsubscribeSpec == Init /\ [][UnsubscribeNext]_vars

Spec == Init /\ [][Next]_vars

\* ------------------------------------------------------------------------
\* Properties of monitor_pve_task (PollerSpec)
\* ------------------------------------------------------------------------
Returned == outcome # NoOutcome

LastResponse == respLog[Len(respLog)]

\* a response the code reads a status from: a dict without 'error' whose
\* 'data' is a dict or absent
WellFormed(r) == ~FetchFailed(r) /\ ~GetRaises(r)

\* C1: once monitor_pve_task has produced its outcome, the outcome never
\* changes and no further GET is issued on the task's status path.
C1_OutcomeFinal ==
    [][Returned => (outcome' = outcome /\ fetches' = fetches)]_vars

C1_Witness ==
    /\ ppc = "done"
    /\ outcome.kind = "SUCCESS"
    /\ fetches = 3

\* C7: monitor_pve_task never ends by an exception, for every integer
\* timeout and every sequence of status-fetch results.
C7_NeverRaises == ppc # "raised"

\* C8: a failed status fetch (None, or a dict with 'error') is the last
\* fetch of the call: the call returns the fetch error right after it, with
\* no retry, no further fetch and no further sleep.
C8_FailedFetchReturnsAtOnce ==
    /\ \A k \in 1 .. Len(respLog) : FetchFailed(respLog[k]) => k = Len(respLog)
    /\ (respLog # <<>> /\ FetchFailed(LastResponse)) =>
          /\ ppc \in {"inspect", "done"}
          /\ sleeps = Len(respLog)
          /\ fetches = Len(respLog)
          /\ ppc = "done" => outcome = Outcome("ERROR_FETCH", LastResponse.kind)
    /\ outcome.kind = "ERROR_FETCH" => (respLog # <<>> /\ FetchFailed(LastResponse))

C8_Witness ==
    /\ outcome.kind = "ERROR_FETCH"
    /\ fetches = 2
    /\ timeout - (now - start_time) >= 2

\* C9: on a fetched status 'stopped' the call returns SUCCESS exactly when
\* the exit status is 'OK' and FAILURE with the exit status read (the 'N/A'
\* default when it is missing) otherwise; on any other status it returns
\* neither and goes on to the deadline check.
C9_StoppedDecides ==
    /\ outcome.kind \in {"SUCCESS", "FAILURE"} =>
          /\ respLog # <<>>
          /\ WellFormed(LastResponse)
          /\ LastResponse.status = "stopped"
    /\ (respLog # <<>> /\ WellFormed(LastResponse) /\ ppc # "inspect") =>
          IF LastResponse.status = "stopped"
          THEN /\ ppc = "done"
               /\ outcome.kind = "SUCCESS" <=> LastResponse.exit = "OK"
               /\ outcome.kind = "FAILURE" <=> LastResponse.exit # "OK"
               /\ outcome.detail = LastResponse.exit
          ELSE /\ outcome.kind \notin {"SUCCESS", "FAILURE"}
               /\ \/ ppc \in {"recheck", "loop", "sleep", "fetch"}
                  \/ outcome = Outcome("ERROR_TIMEOUT", LastResponse.status)

C9_Witness ==
    /\ outcome = Outcome("FAILURE", "N/A")
    /\ fetches = 2
    /\ respLog[1].status = "running"

\* C10: with a positive timeout T, every fetch taking no time and every
\* sleep taking exactly 2 s, a run whose fetches all succeed with a status
\* other than 'stopped' makes at most ceil(T/2) fetches, does not raise, and
\* when it returns it returns the timeout error carrying the status of its
\* most recent fetch.
NeverStopsNorFails ==
    \A k \in 1 .. Len(respLog) :
        WellFormed(respLog[k]) /\ respLog[k].status # "stopped"

CeilHalf(T) == (T + 1) \div 2

C10_TimedOutWithinBudget ==
    (ppc # "idle" /\ timeout > 0 /\ extraDelay = 0 /\ NeverStopsNorFails
        /\ pve_client = "client" /\ is_authenticated) =>
       /\ fetches <= CeilHalf(timeout)
       /\ ppc # "raised"
       /\ ppc = "done" =>
             /\ respLog # <<>>
             /\ outcome = Outcome("ERROR_TIMEOUT", LastResponse.status)
       /\ Returned => ppc = "done"

C10_Witness ==
    /\ ppc = "done"
    /\ timeout = 5
    /\ extraDelay = 0
    /\ NeverStopsNorFails
    /\ fetches = 3
    /\ outcome = Outcome("ERROR_TIMEOUT", "running")

\* C11: when the first k-1 fetches return a status other than 'stopped' and
\* the k-th returns 'stopped' with exit status 'OK', the call returns
\* SUCCESS after exactly k fetches; and at the plain 2 s cadence the call
\* has not returned while fewer than timeout/2 such fetches were made, so
\* the k-th fetch with 2*(k-1) < timeout does take place.
StoppedOkAtLast ==
    /\ respLog # <<>>
    /\ \A k \in 1 .. Len(respLog) - 1 :
          WellFormed(respLog[k]) /\ respLog[k].status # "stopped"
    /\ LastResponse = RData("stopped", "OK")

C11_SucceedsAtKthFetch ==
    /\ (StoppedOkAtLast /\ ppc # "inspect") =>
          /\ ppc = "done"
          /\ outcome = Outcome("SUCCESS", "OK")
          /\ fetches = Len(respLog)
    /\ (ppc # "idle" /\ pve_client = "client" /\ is_authenticated
          /\ extraDelay = 0 /\ NeverStopsNorFails
          /\ 2 * fetches < timeout) =>
          /\ ~Returned
          /\ ppc \in {"loop", "sleep", "fetch", "inspect", "recheck"}

C11_Witness ==
    /\ ppc = "done"
    /\ extraDelay = 0
    /\ timeout = 5
    /\ respLog = <<RData("running", "N/A"), RData("running", "N/A"),
                   RData("stopped", "OK")>>
    /\ outcome = Outcome("SUCCESS", "OK")
    /\ fetches = 3

\* C19 (as stated): every call that has returned has returned one of the
\* four forms SUCCESS, FAILURE, timed out, failed to fetch.
C19_FourForms ==
    ppc = "done" =>
        outcome.kind \in {"SUCCESS", "FAILURE", "ERROR_TIMEOUT", "ERROR_FETCH"}

\* C19 (amended): the strings monitor_pve_task returns are of five forms:
\* SUCCESS with exit status OK, FAILURE with another exit status, the
\* timeout error with the last status, the fetch error, and the error of
\* line 277, returned exactly by the calls made while the client is unset or
\* unauthenticated; a call has returned exactly when it holds one of them.
C19_FiveForms ==
    /\ outcome.kind \in {"none", "SUCCESS", "FAILURE", "ERROR_TIMEOUT",
                          "ERROR_FETCH", "ERROR_NOT_AUTH"}
    /\ outcome.kind = "SUCCESS" => outcome.detail = "OK"
    /\ outcome.kind = "FAILURE" => outcome.detail \in ExitValues \ {"OK"}
    /\ outcome.kind = "ERROR_TIMEOUT" => outcome.detail \in StatusValues
    /\ outcome.kind = "ERROR_FETCH" => outcome.detail \in {"none", "error"}
    /\ outcome = Outcome("ERROR_NOT_AUTH", "") <=>
          (ppc # "idle" /\ (pve_client = "None" \/ ~is_authenticated))
    /\ Returned <=> ppc = "done"

C19_Witness ==
    /\ ppc = "done"
    /\ pve_client = "client"
    /\ ~is_authenticated
    /\ outcome = Outcome("ERROR_NOT_AUTH", "")

\* C22: the deadline check of lines 300-301 can be left out: whenever it
\* returns, the loop test of line 282, made at the same time and with the
\* same status, leaves the loop and line 303 returns the very same outcome
\* with no further sleep or fetch; whenever it does not return, it changes
\* nothing and the call goes on to that loop test. A poller that goes from
\* the status test straight to line 282 hence returns the same outcome
\* after the same number of fetches.
C22_RecheckRedundant ==
    [][ppc = "recheck" =>
          /\ UNCHANGED <<now, start_time, timeout, status, exitstatus,
                          fetches, sleeps, respLog>>
          /\ IF ppc' = "done"
             THEN WhileTest(now, start_time, timeout, status) =
                     [pc |-> "done", out |-> outcome']
             ELSE ppc' = "loop" /\ outcome' = outcome]_vars

C22_Witness ==
    /\ ppc = "done"
    /\ timeout > 0
    /\ outcome = Outcome("ERROR_TIMEOUT", "running")
    /\ now - start_time > timeout
    /\ fetches = 2

\* C23: while pve_client is unset or is_authenticated is false no HTTP
\* request is made: a step taken in such a state leaves the count of
\* requests as it is, a tool called there returns its not-authenticated
\* error, api_request returns its error dict, and monitor_pve_task the
\* error of line 277; and is_authenticated turns true only in the step
\* that runs authenticate() on a client whose token id and token secret
\* are both present.
C23_NoRequestUnauthenticated ==
    [][/\ (pve_client = "None" \/ ~is_authenticated) =>
             /\ httpRequests' = httpRequests
             /\ fetches' = fetches
             /\ toolCalls' # toolCalls =>
                   toolOutcome' \in {"ERROR_NOT_AUTH", "error_dict"}
             /\ ppc' # ppc => outcome' = Outcome("ERROR_NOT_AUTH", "")
       /\ (~is_authenticated /\ is_authenticated') =>
             /\ pve_client' = "client"
             /\ token_id' /\ token_secret'
       /\ is_authenticated' => (token_id' /\ token_secret')]_vars

C23_Witness ==
    /\ pve_client = "client"
    /\ token_secret /\ ~token_id
    /\ ~is_authenticated
    /\ toolCalls = 2
    /\ toolOutcome = "error_dict"
    /\ outcome = Outcome("ERROR_NOT_AUTH", "")
    /\ httpRequests = 0

\* ------------------------------------------------------------------------
\* Properties of the event pipeline (BusSpec, TranslatorSpec)
\* ------------------------------------------------------------------------
\* The event kind a frame carries, read back from its label and JSON type.
FrameKind(f) ==
    CASE f.label = "start" -> "start"
      [] f.label = "done" -> "done"
      [] f.label = "result" -> "answer"
      [] f.label = "error" -> "error"
      [] OTHER -> f.type

\* the event kinds of a caller's stream, and of a list of bus events
StreamKinds(i) == [k \in 1 .. Len(stream[i]) |-> FrameKind(stream[i][k])]

EventKinds(evs) == [k \in 1 .. Len(evs) |-> evs[k].type]

OfThread(evs, tid) == SelectSeq(evs, LAMBDA e : e.thread_id = tid)

IsPrefix(a, b) == Len(a) <= Len(b) /\ \A k \in 1 .. Len(a) : a[k] = b[k]

\* the publish call of invocation i's start event
Started(i) == spc[i] \notin {"new", "created"}

StartIndex(i) ==
    CHOOSE k \in 1 .. Len(published) :
        published[k].thread_id = thread_id[i] /\ published[k].type = "start"

\* C2: every queue that is in the registry holds, read items and buffer
\* together, exactly the events published since it registered, in the order
\* of the publish calls: all registered observers see one global order.
C2_SameGlobalOrder ==
    \A q \in QIds :
        Registered(q) => qput[q] = SubSeq(published, regAt[q] + 1, Len(published))

C2_Witness ==
    /\ Registered(1) /\ Registered(2)
    /\ regAt[1] = 0 /\ regAt[2] = 0
    /\ Len(published) >= 4
    /\ published[1].thread_id = 1
    /\ published[2].thread_id = 2
    /\ published[3].thread_id = 1
    /\ published[4].thread_id = 2
    /\ qput[1] = published /\ qput[2] = published
    /\ qgot[1] = 1

\* C3: when an invocation has run to completion, every subscriber that
\* registered before its Start and is still registered holds, for that
\* thread_id, the same sequence of event kinds as the caller's stream, Start
\* and Done included.
C3_CallerEventsOnSubscribers ==
    \A i \in Invs, q \in QIds :
        (spc[i] = "closed" /\ Registered(q) /\ regAt[q] < StartIndex(i)) =>
            EventKinds(OfThread(qput[q], thread_id[i])) = StreamKinds(i)

\* C5: at every point, the events yielded so far to a caller's stream have
\* all been published already, in the same order.
C5_YieldedAlreadyPublished ==
    \A i \in Invs :
        Started(i) =>
            IsPrefix(StreamKinds(i), EventKinds(OfThread(published, thread_id[i])))

\* C4: the caller's stream holds at most one done frame and nothing after
\* it; a finished generator has yielded it; and an upstream exception shows
\* as one error frame, the last but one of the finished stream, directly
\* followed by done.
C4_DoneIsLast ==
    LET s == StreamKinds(1)
        n == Len(s)
    IN /\ \A k \in 1 .. n : s[k] = "done" => k = n
       /\ spc[1] \in {"at_done", "closed"} <=> (n > 0 /\ s[n] = "done")
       /\ \A k \in 1 .. n :
             s[k] = "error" =>
                \/ k = n /\ spc[1] = "at_error"
                \/ k = n - 1 /\ s[n] = "done"
       /\ spc[1] = "at_error" => (n > 0 /\ s[n] = "error")

C4_Witness ==
    /\ spc[1] = "closed"
    /\ StreamKinds(1) = <<"start", "thought", "tool_call", "error", "done">>

\* C6: over the steps [reasoning, tool_call, tool_result, answer], one per
\* step, the caller's stream grows as a prefix of [Start, Thought, ToolCall,
\* ToolResult, Answer, Done] and is exactly that when the upstream finishes.
ScriptC6 == <<StepReasoning, StepToolCall, StepToolResult, StepAnswer>>

ExpectedC6 ==
    <<Frame(Ev("start", "")), Frame(Ev("thought", "x")),
      Frame(Ev("tool_call", "start_vm")), Frame(Ev("tool_result", "ok")),
      Frame(Ev("answer", "done")), Frame(Ev("done", ""))>>

NoErrorFrame(i) == \A k \in 1 .. Len(stream[i]) : FrameKind(stream[i][k]) # "error"

RECURSIVE MessagesOfStep(_)
MessagesOfStep(step) ==
    IF step = <<>> THEN <<>>
    ELSE Head(step).messages \o MessagesOfStep(Tail(step))

RECURSIVE MessagesOf(_)
MessagesOf(steps) ==
    IF steps = <<>> THEN <<>>
    ELSE MessagesOfStep(Head(steps)) \o MessagesOf(Tail(steps))

Contents(seq) == [k \in 1 .. Len(seq) |-> seq[k].content]

\* the reasoning messages whose text is neither empty nor the marker
PlainReasoning(msgs) ==
    SelectSeq(msgs, LAMBDA m :
        /\ m.cls = "AIMessage"
        /\ m.content \notin {"", "Returning structured response",
                              "Returning structured response: {}"})

StreamThoughts(i) ==
    Contents(SelectSeq(stream[i], LAMBDA f : f.label = "" /\ f.type = "thought"))

BusThoughts(i) ==
    Contents(SelectSeq(published, LAMBDA e :
        e.thread_id = thread_id[i] /\ e.type = "thought"))

C20_NothingButDoneAfterAnswer ==
    \A j, k \in 1 .. Len(stream[1]) :
        (j < k /\ FrameKind(stream[1][j]) = "answer") =>
            FrameKind(stream[1][k]) \notin
                {"thought", "tool_call", "tool_result", "answer"}

\* ------------------------------------------------------------------------
\* Properties of the registry and the bus (BusSpec, DisconnectSpec,
\* UnsubscribeSpec)
\* ------------------------------------------------------------------------
In(list, q) == \E k \in 1 .. Len(list) : list[k] = q

Last(seq) == seq[Len(seq)]

\* C12: a queue is registered empty, so it never holds an event published
\* before its registration; and every publish made while a queue is
\* registered appends that event to it, whatever other publishers run in
\* between.
C12_RegistrationSeenByLaterPublishes ==
    [][/\ \A q \in QIds :
            (~In(MONITOR_QUEUES, q) /\ In(MONITOR_QUEUES', q)) =>
               /\ qput'[q] = <<>>
               /\ published' = published
               /\ regAt'[q] = Len(published)
       /\ \A q \in QIds :
            (In(MONITOR_QUEUES, q) /\ published' # published) =>
               /\ published' = Append(published, Last(published'))
               /\ qput'[q] = Append(qput[q], Last(published'))]_vars

C12_Witness ==
    /\ Registered(2)
    /\ regAt[2] >= 1
    /\ Len(qput[2]) >= 2
    /\ qput[2][1] = published[regAt[2] + 1]
    /\ Last(qput[2]) = Last(published)

\* C13: once a queue has been removed from MONITOR_QUEUES it is not in the
\* registry and no later broadcast_event adds anything to it.
C13_RemovedQueueGetsNothing ==
    [][\A q \in QIds :
          mpc[q] = "cancelled" =>
             /\ ~In(MONITOR_QUEUES, q)
             /\ ~In(MONITOR_QUEUES', q)
             /\ qput'[q] = qput[q]
             /\ mpc'[q] = "cancelled"]_vars

C13_Witness ==
    /\ mpc[1] = "cancelled"
    /\ Registered(2)
    /\ Len(published) >= unregAt[1] + 2
    /\ Len(qput[2]) > Len(qput[1])

\* C14: whenever the observer of a queue has disconnected, whether its
\* generator was waiting in q.get(), had not been asked for a frame yet or
\* was closed at its yield, the queue is no longer in MONITOR_QUEUES.
C14_DisconnectUnsubscribes ==
    \A q \in QIds : mpc[q] \in {"cancelled", "closed"} => ~Registered(q)

\* C15: a caller's disconnect in mid-run does not end the translation: an
\* invocation that has started and is no longer running has reached the end
\* of its upstream (its last frame is done) and has published every event
\* it translated.
C15_TranslationSurvivesDisconnect ==
    \A i \in Invs :
        (spc[i] \in {"closed", "cancelled"} /\ stream[i] # <<>>) =>
           /\ FrameKind(Last(stream[i])) = "done"
           /\ pending[i] = <<>>

\* C16: every queue holds exactly the events published from its
\* registration to its removal (to now while it is registered), each once
\* and in publish order, whatever other queues were registered or removed
\* meanwhile; and no queue is in the registry twice.
C16_ExactlyWhileRegistered ==
    /\ \A q \in QIds :
          mpc[q] # "none" =>
             qput[q] = SubSeq(published, regAt[q] + 1,
                              IF Registered(q) THEN Len(published)
                              ELSE unregAt[q])
    /\ \A j, k \in 1 .. Len(MONITOR_QUEUES) :
          MONITOR_QUEUES[j] = MONITOR_QUEUES[k] => j = k

C16_Witness ==
    /\ mpc[1] = "cancelled"
    /\ Registered(2)
    /\ regAt[1] = 0
    /\ regAt[2] = 1
    /\ unregAt[1] = 2
    /\ Len(published) = 4
    /\ Len(qput[1]) = 2
    /\ Len(qput[2]) = 3

\* C17: removing a queue handle that is not in MONITOR_QUEUES (already
\* removed, or never registered) raises nothing and leaves the registry as
\* it is.
C17_UnsubscribeIdempotent ==
    /\ \A q \in QIds : mpc[q] # "raised"
    /\ \A q \in QIds : RemoveRaises(MONITOR_QUEUES, q) =>
                           Remove(MONITOR_QUEUES, q) = MONITOR_QUEUES

\* C18: a broadcast_event call is never held up by the queues: whenever a
\* translator stands before one, it can be carried out, however many
\* unread events the queues hold; and with no queue registered it changes
\* nothing of the registry or the queues.
C18_BroadcastNeverBlocks ==
    [][/\ \A i \in Invs : spc[i] = "created" => ENABLED SseStart(i)
       /\ \A i \in Invs : spc[i] = "at_event" => ENABLED ResumeEvent(i)
       /\ \A i \in Invs : spc[i] = "at_error" => ENABLED ResumeError(i)
       /\ (MONITOR_QUEUES = <<>> /\ published' # published) =>
             UNCHANGED <<MONITOR_QUEUES, nextQ, qput, qgot, mpc>>]_vars

C18_Witness ==
    /\ Registered(1)
    /\ mpc[1] = "created"
    /\ qgot[1] = 0
    /\ Len(Buffer(1)) >= 4
    /\ Len(published) >= 4

====
